---------------------------- MODULE Spec2Model ----------------------------
(***************************************************************************)
(* Model of the two services of the web-to-rag infrastructure:             *)
(*   yt-dlp/app.py   caption extraction and audio download (yt-dlp-server) *)
(*   whisper/app.py  speech recognition (whisper-server)                   *)
(*                                                                         *)
(* Text is a sequence of one-character strings, so that the regular        *)
(* expressions and the substring tests of the code are computed character  *)
(* by character. Python's None is the empty sequence and a present value x *)
(* is <<x>>.                                                               *)
(***************************************************************************)
EXTENDS Integers, Sequences, FiniteSets, TLC

VARIABLES
    \* ---- yt-dlp-server: POST /youtube/transcript (one request at a time:
    \*      the handler never awaits, so it owns the event loop until it ends)
    yt_pc,        \* position of the handler
    yt_req,       \* the YouTubeRequest
    video_id,     \* local video_id
    title,        \* local title (Optional)
    duration,     \* local duration (Optional)
    temp_dir,     \* TRUE while the TemporaryDirectory exists
    vtt_file,     \* who wrote <temp_dir>/subs.<language>.vtt: "none", "manual", "auto"
    yt_calls,     \* external calls of this request with their outcomes, in order
    yt_resp,      \* what the caller receives
    \* ---- yt-dlp-server: POST /youtube/audio
    au_pc,        \* per request: "new", "waiting", "running", "done"
    au_url,       \* per request: the url parameter
    au_vid,       \* per request: local video_id
    au_saw,       \* per request: what the cache check found at output_path
    au_invoked,   \* per request: TRUE once the download tool was started
    au_resp,      \* per request: what the caller receives
    files,        \* /app/temp/<id>.mp3: "none", "partial", "complete"
    loop_owner,   \* the request whose handler holds the event loop, or 0
    \* ---- whisper-server
    whisper_model,  \* the global: None, or <<size>> of the loaded instance
    wh_assigned,    \* how many times the global has been assigned an instance
    wh_pc,          \* per request: "new", "reading", "fetching", "done"
    wh_req,         \* per request: endpoint, model, and what it saw on arrival
    wh_temp,        \* per request: temp_file (None, or <<name>>)
    wh_inst,        \* per request: local whisper (None, or <<size>>)
    wh_exc,         \* per request: the exception e its except clause caught, or None
    wh_resp,        \* per request: the TranscribeResponse
    tmpfs,          \* /app/temp: per temp file name, the request whose file it is, or 0
    \* ---- extract_video_id, called on its own
    rs_url,         \* the argument url
    rs_out,         \* what the call gives: the token, or ValueError
    \* ---- whisper-server: collecting the transcript of one recognition
    segments,          \* the segment texts the recognition returned
    transcript_parts,  \* local transcript_parts
    jn_transcript,     \* local transcript (None until joined)
    jn_pc              \* "idle", "loop", "joined"

None == <<>>
Some(x) == <<x>>

-----------------------------------------------------------------------------
(* Text helpers *)

TokenChars ==
    {"a","b","c","d","e","f","g","h","i","j","k","l","m","n","o","p","q","r",
     "s","t","u","v","w","x","y","z","A","B","C","D","E","F","G","H","I","J",
     "K","L","M","N","O","P","Q","R","S","T","U","V","W","X","Y","Z","0","1",
     "2","3","4","5","6","7","8","9","_","-"}

\* {11} of the three patterns
TokLen == 11

\* the literal lit stands in s at position i
HasAt(s, i, lit) ==
    /\ i >= 1
    /\ i + Len(lit) - 1 <= Len(s)
    /\ \A k \in 1..Len(lit) : s[i + k - 1] = lit[k]

\* Python's `lit in s`
Contains(s, lit) == \E i \in 1..(Len(s) + 1) : HasAt(s, i, lit)

\* [a-zA-Z0-9_-]{11} stands in s at position i
TokenAt(s, i) ==
    /\ i >= 1
    /\ i + TokLen - 1 <= Len(s)
    /\ \A k \in i..(i + TokLen - 1) : s[k] \in TokenChars

-----------------------------------------------------------------------------
(* extract_video_id *)

\* faulty variant: the first pattern without the youtu.be/ alternative
patterns_NoShort ==
    << [alts |-> << <<"v","=">>, <<"/","v","/">> >>, anchored |-> FALSE],
       [alts |-> << <<"e","m","b","e","d","/">> >>, anchored |-> FALSE],
       [alts |-> << <<>> >>, anchored |-> TRUE] >>

\* The three regular expressions, in list order. A pattern is the ordered
\* alternation of literals in front of the captured token, and whether the
\* pattern is anchored with ^ and $.
patterns ==
    << [alts |-> << <<"v","=">>, <<"/","v","/">>,
                    <<"y","o","u","t","u",".","b","e","/">> >>,
        anchored |-> FALSE],
       [alts |-> << <<"e","m","b","e","d","/">> >>, anchored |-> FALSE],
       [alts |-> << <<>> >>, anchored |-> TRUE] >>

NoMatch == [matched |-> FALSE, group1 |-> <<>>]

\* the alternative of pat that matches at position i (the first in order)
AltsAt(pat, s, i) ==
    {a \in 1..Len(pat.alts) :
        HasAt(s, i, pat.alts[a]) /\ TokenAt(s, i + Len(pat.alts[a]))}

\* positions where pat can match: every position for a search, position 1
\* with the end of the text (or a final newline, which $ accepts) after the
\* token for an anchored pattern
MatchPositions(pat, s) ==
    {i \in 1..(Len(s) + 1) :
        /\ AltsAt(pat, s, i) # {}
        /\ pat.anchored =>
              /\ i = 1
              /\ \/ Len(s) = TokLen
                 \/ Len(s) = TokLen + 1 /\ s[Len(s)] = "\n"}

Min(S) == CHOOSE x \in S : \A y \in S : x <= y

\* faulty variant: the rightmost match instead of the leftmost
re_search_Rightmost(pat, s) ==
    IF MatchPositions(pat, s) = {} THEN NoMatch
    ELSE LET i == CHOOSE x \in MatchPositions(pat, s) :
                      \A y \in MatchPositions(pat, s) : y <= x
             a == Min(AltsAt(pat, s, i))
             b == i + Len(pat.alts[a])
         IN  [matched |-> TRUE, group1 |-> SubSeq(s, b, b + TokLen - 1)]

\* re.search(pattern, url): the leftmost match, group(1) is the token
re_search(pat, s) ==
    IF MatchPositions(pat, s) = {} THEN NoMatch
    ELSE LET i == Min(MatchPositions(pat, s))
             a == Min(AltsAt(pat, s, i))
             b == i + Len(pat.alts[a])
         IN  [matched |-> TRUE, group1 |-> SubSeq(s, b, b + TokLen - 1)]

\* the first pattern, in list order, that matches
FirstPattern(url) ==
    LET hits == {p \in 1..Len(patterns) : re_search(patterns[p], url).matched}
    IN  IF hits = {} THEN 0 ELSE Min(hits)

CouldNotExtract ==
    <<"C","o","u","l","d"," ","n","o","t"," ","e","x","t","r","a","c","t"," ",
      "v","i","d","e","o"," ","I","D"," ","f","r","o","m",":"," ">>

\* extract_video_id(url): the token, or ValueError with its message
extract_video_id(url) ==
    IF FirstPattern(url) = 0
    THEN [ok |-> FALSE, id |-> <<>>, error |-> CouldNotExtract \o url]
    ELSE [ok |-> TRUE, id |-> re_search(patterns[FirstPattern(url)], url).group1,
          error |-> <<>>]

-----------------------------------------------------------------------------
(* Inputs of the transcript endpoint *)

TokA == <<"d","Q","w","4","w","9","W","g","X","c","Q">>
TokB == <<"a","-","b","_","C","1","d","2","E","3","f">>

WatchPrefix ==
    <<"h","t","t","p","s",":","/","/","w","w","w",".","y","o","u","t","u","b",
      "e",".","c","o","m","/","w","a","t","c","h","?","v","=">>
ShortPrefix ==
    <<"h","t","t","p","s",":","/","/","y","o","u","t","u",".","b","e","/">>
EmbedPrefix ==
    <<"h","t","t","p","s",":","/","/","w","w","w",".","y","o","u","t","u","b",
      "e",".","c","o","m","/","e","m","b","e","d","/">>

\* references the requests are made with: resolvable ones in every accepted
\* form, and ones no pattern matches
Urls ==
    { WatchPrefix \o TokA,
      ShortPrefix \o TokB,
      EmbedPrefix \o TokA,
      TokB,
      <<"h","t","t","p","s",":","/","/","e","x","a","m","p","l","e",".","c",
        "o","m","/","v","i","d","e","o">>,
      <<"d","Q","w","4","w","9","W","g","X","c">>,
      <<>> }

Languages == {"en", "it"}

\* references of the audio requests: two forms of one token, a bare token,
\* and one no pattern matches
AudioUrls ==
    { WatchPrefix \o TokA,
      ShortPrefix \o TokA,
      TokB,
      <<"d","Q","w","4","w","9","W","g","X","c">> }

\* extract_video_id over the references of the model, computed once
Resolved == [u \in Urls \cup AudioUrls |-> extract_video_id(u)]

-----------------------------------------------------------------------------
(* POST /youtube/transcript *)

yt_vars == <<yt_pc, yt_req, video_id, title, duration, temp_dir, vtt_file,
             yt_calls, yt_resp>>

\* How a subprocess.run of yt-dlp can end: the exit status, or the timeout,
\* and whether it left the file the handler looks for afterwards.
ExitKinds == {"zero", "nonzero", "timeout"}
FetchOutcomes == [exit : ExitKinds, wrote : BOOLEAN]

\* --dump-json: the exit status and what stdout holds
InfoOutcomes == [exit : ExitKinds, stdout : {"json", "json_no_keys", "garbage"}]

\* an entry of the log of external calls: which call, how it ended, whether it
\* left the file looked for, and what was captured from its stdout
Call(op, exit, wrote, stdout) ==
    [op |-> op, exit |-> exit, wrote |-> wrote, stdout |-> stdout]

\* subprocess.run(..., timeout=...) without check=True raises only on timeout
Raises(o) == o.exit = "timeout"

\* faulty variant: the message without the hint at the speech-recognition service
NoSubtitles_NoHint ==
    <<"N","o"," ","s","u","b","t","i","t","l","e","s"," ","a","v","a","i","l",
      "a","b","l","e",".">>

\* error of the last return of extract_youtube_transcript
NoSubtitles ==
    <<"N","o"," ","s","u","b","t","i","t","l","e","s"," ","a","v","a","i","l",
      "a","b","l","e","."," ","U","s","e"," ","w","h","i","s","p","e","r","-",
      "s","e","r","v","e","r"," ","f","o","r"," ","a","u","d","i","o"," ","t",
      "r","a","n","s","c","r","i","p","t","i","o","n",".">>

\* the normalizer, applied to the document the fetch wrote
clean_vtt_content(doc) == <<"plain text of", doc>>

Pending ==
    [state |-> "pending", raised |-> None, success |-> FALSE, video_id |-> <<>>,
     title |-> None, transcript |-> None, source |-> None, language |-> "",
     duration |-> None, error |-> None]

\* YouTubeResponse(...): the fields not given keep their defaults
YouTubeResponse(success, vid, ttl, transcript, source, language, dur, error) ==
    [state |-> "returned", raised |-> None, success |-> success, video_id |-> vid,
     title |-> ttl, transcript |-> transcript, source |-> source,
     language |-> language, duration |-> dur, error |-> error]

\* an exception that leaves the handler
Escapes(exc) == [Pending EXCEPT !.state = "raised", !.raised = Some(exc)]

os_path_exists(f) == f # "none"

YtInit ==
    /\ yt_pc = "idle"
    /\ yt_req = [url |-> TokA, language |-> "en", prefer_manual |-> TRUE]
    /\ video_id = <<>>
    /\ title = None
    /\ duration = None
    /\ temp_dir = FALSE
    /\ vtt_file = "none"
    /\ yt_calls = <<>>
    /\ yt_resp = Pending

\* a request arrives (the previous one has ended)
YtReceive(url, language, prefer_manual) ==
    /\ yt_pc \in {"idle", "done"}
    /\ yt_pc' = "resolve"
    /\ yt_req' = [url |-> url, language |-> language, prefer_manual |-> prefer_manual]
    /\ video_id' = <<>>
    /\ title' = None
    /\ duration' = None
    /\ temp_dir' = FALSE
    /\ vtt_file' = "none"
    /\ yt_calls' = <<>>
    /\ yt_resp' = Pending

\* faulty variant: the except branch does not return: the handler carries on
AfterResolveError_NoReturn == "info"

\* where the handler goes when extract_video_id raised ValueError
AfterResolveError == "done"

\* try: video_id = extract_video_id(request.url) except ValueError: return ...
YtResolve ==
    /\ yt_pc = "resolve"
    /\ LET r == Resolved[yt_req.url]
       IN  IF r.ok
           THEN /\ video_id' = r.id
                /\ yt_pc' = "info"
                /\ yt_resp' = yt_resp
           ELSE /\ video_id' = video_id
                /\ yt_pc' = AfterResolveError
                /\ yt_resp' = YouTubeResponse(FALSE, <<>>, None, None, None,
                                              yt_req.language, None, Some(r.error))
    /\ UNCHANGED <<yt_req, title, duration, temp_dir, vtt_file, yt_calls>>

\* faulty variant: a failed metadata fetch ends the request
YtInfo_Fatal(o) ==
    /\ yt_pc = "info"
    /\ yt_calls' = Append(yt_calls, Call("info", o.exit, FALSE, o.stdout))
    /\ IF o.exit = "zero" /\ o.stdout = "json"
       THEN title' = Some("title") /\ duration' = Some(212)
       ELSE title' = None /\ duration' = None
    /\ IF o.exit = "zero" /\ o.stdout # "garbage"
       THEN yt_pc' = "tempdir" /\ yt_resp' = yt_resp
       ELSE /\ yt_pc' = "done"
            /\ yt_resp' = YouTubeResponse(FALSE, video_id, None, None, None,
                                          yt_req.language, None, Some(<<"i","n","f","o">>))
    /\ UNCHANGED <<yt_req, video_id, temp_dir, vtt_file>>

\* the metadata block: every exception is swallowed
YtInfo(o) ==
    /\ yt_pc = "info"
    /\ yt_calls' = Append(yt_calls, Call("info", o.exit, FALSE, o.stdout))
    /\ IF o.exit = "zero" /\ o.stdout = "json"
       THEN title' = Some("title") /\ duration' = Some(212)
       ELSE title' = None /\ duration' = None
    /\ yt_pc' = "tempdir"
    /\ UNCHANGED <<yt_req, video_id, temp_dir, vtt_file, yt_resp>>

\* faulty variant: the manual fetch is tried whatever prefer_manual says
YtTempDir_AlwaysManual ==
    /\ yt_pc = "tempdir"
    /\ temp_dir' = TRUE
    /\ vtt_file' = "none"
    /\ yt_calls' = Append(yt_calls, Call("mkdtemp", "zero", FALSE, ""))
    /\ yt_pc' = "manual"
    /\ UNCHANGED <<yt_req, video_id, title, duration, yt_resp>>

\* with tempfile.TemporaryDirectory() as temp_dir
YtTempDir ==
    /\ yt_pc = "tempdir"
    /\ temp_dir' = TRUE
    /\ vtt_file' = "none"
    /\ yt_calls' = Append(yt_calls, Call("mkdtemp", "zero", FALSE, ""))
    /\ yt_pc' = IF yt_req.prefer_manual THEN "manual" ELSE "auto"
    /\ UNCHANGED <<yt_req, video_id, title, duration, yt_resp>>

\* leaving the with block, by return or by exception, removes the directory
LeaveWith(resp) ==
    /\ yt_resp' = resp
    /\ yt_pc' = "done"
    /\ temp_dir' = FALSE
    /\ vtt_file' = "none"

\* faulty variant: a manual fetch that leaves no file ends the request with the
\* "no subtitles" failure instead of falling through
YtManual_MissFails(o) ==
    /\ yt_pc = "manual"
    /\ yt_calls' = Append(yt_calls, Call("manual", o.exit, o.wrote, ""))
    /\ LET f == IF o.wrote THEN "manual" ELSE vtt_file
       IN  IF Raises(o)
           THEN LeaveWith(Escapes("TimeoutExpired"))
           ELSE IF os_path_exists(f)
           THEN LeaveWith(YouTubeResponse(TRUE, video_id, title,
                              Some(clean_vtt_content(f)), Some("manual"),
                              yt_req.language, duration, None))
           ELSE LeaveWith(YouTubeResponse(FALSE, video_id, title, None, None,
                              yt_req.language, duration, Some(NoSubtitles)))
    /\ UNCHANGED <<yt_req, video_id, title, duration>>

\* faulty variant: a manual file does not end the request; the auto-generated
\* fetch is made all the same
YtManual_NoShortCircuit(o) ==
    /\ yt_pc = "manual"
    /\ yt_calls' = Append(yt_calls, Call("manual", o.exit, o.wrote, ""))
    /\ LET f == IF o.wrote THEN "manual" ELSE vtt_file
       IN  IF Raises(o)
           THEN LeaveWith(Escapes("TimeoutExpired"))
           ELSE /\ yt_pc' = "auto"
                /\ vtt_file' = f
                /\ UNCHANGED <<temp_dir, yt_resp>>
    /\ UNCHANGED <<yt_req, video_id, title, duration>>

\* if request.prefer_manual: run --write-sub, look for the file
YtManual(o) ==
    /\ yt_pc = "manual"
    /\ yt_calls' = Append(yt_calls, Call("manual", o.exit, o.wrote, ""))
    /\ LET f == IF o.wrote THEN "manual" ELSE vtt_file
       IN  IF Raises(o)
           THEN LeaveWith(Escapes("TimeoutExpired"))
           ELSE IF os_path_exists(f)
           THEN LeaveWith(YouTubeResponse(TRUE, video_id, title,
                              Some(clean_vtt_content(f)), Some("manual"),
                              yt_req.language, duration, None))
           ELSE /\ yt_pc' = "auto"
                /\ vtt_file' = f
                /\ UNCHANGED <<temp_dir, yt_resp>>
    /\ UNCHANGED <<yt_req, video_id, title, duration>>

\* run --write-auto-sub, look for the file, else "No subtitles available"
YtAuto(o) ==
    /\ yt_pc = "auto"
    /\ yt_calls' = Append(yt_calls, Call("auto", o.exit, o.wrote, ""))
    /\ LET f == IF o.wrote THEN "auto" ELSE vtt_file
       IN  IF Raises(o)
           THEN LeaveWith(Escapes("TimeoutExpired"))
           ELSE IF os_path_exists(f)
           THEN LeaveWith(YouTubeResponse(TRUE, video_id, title,
                              Some(clean_vtt_content(f)), Some("auto-generated"),
                              yt_req.language, duration, None))
           ELSE LeaveWith(YouTubeResponse(FALSE, video_id, title, None, None,
                              yt_req.language, duration, Some(NoSubtitles)))
    /\ UNCHANGED <<yt_req, video_id, title, duration>>


-----------------------------------------------------------------------------
(* POST /youtube/audio *)

au_vars == <<au_pc, au_url, au_vid, au_saw, au_invoked, au_resp, files, loop_owner>>

\* number of audio requests of a run
MaxAudioReq == 3
AudioReqs == 1..MaxAudioReq

\* output_path = f"/app/temp/{video_id}.mp3"
CachePath(vid) ==
    <<"/","a","p","p","/","t","e","m","p","/">> \o vid \o <<".","m","p","3">>

AudioPaths == {CachePath(Resolved[u].id) : u \in {v \in AudioUrls : Resolved[v].ok}}

AuPending ==
    [state |-> "pending", status |-> 0, success |-> FALSE, audio_path |-> None,
     video_id |-> <<>>, cached |-> FALSE, detail |-> ""]

\* return {"success": True, "audio_path": ..., "video_id": ..., "cached": ...}
AuReturn(path, vid, cached) ==
    [state |-> "returned", status |-> 200, success |-> TRUE, audio_path |-> Some(path),
     video_id |-> vid, cached |-> cached, detail |-> ""]

\* raise HTTPException(status_code=..., detail=...)
HTTPException(status, detail) ==
    [AuPending EXCEPT !.state = "raised", !.status = status, !.detail = detail]

AuInit ==
    /\ au_pc = [r \in AudioReqs |-> "new"]
    /\ au_url = [r \in AudioReqs |-> <<>>]
    /\ au_vid = [r \in AudioReqs |-> <<>>]
    /\ au_saw = [r \in AudioReqs |-> "unchecked"]
    /\ au_invoked = [r \in AudioReqs |-> FALSE]
    /\ au_resp = [r \in AudioReqs |-> AuPending]
    /\ files = [p \in AudioPaths |-> "none"]
    /\ loop_owner = 0

\* local output_path
output_path(r) == CachePath(au_vid[r])

\* a request reaches the server; requests are numbered in arrival order
AuArrive(r, url) ==
    /\ au_pc[r] = "new"
    /\ IF r = 1 THEN TRUE ELSE au_pc[r - 1] # "new"
    /\ au_pc' = [au_pc EXCEPT ![r] = "waiting"]
    /\ au_url' = [au_url EXCEPT ![r] = url]
    /\ UNCHANGED <<au_vid, au_saw, au_invoked, au_resp, files, loop_owner>>

\* faulty variant: the cache check never finds the file
CacheHit_Never(f) == FALSE

\* if os.path.exists(output_path)
CacheHit(f) == os_path_exists(f)

\* The handler from its start to subprocess.run. It is a coroutine that never
\* awaits, so it starts only when no other handler holds the event loop and
\* holds the loop while the download tool runs.
AuBegin(r) ==
    /\ au_pc[r] = "waiting"
    /\ loop_owner = 0
    /\ LET x == Resolved[au_url[r]]
       IN  IF ~x.ok
           THEN /\ au_resp' = [au_resp EXCEPT ![r] = HTTPException(400, "ValueError")]
                /\ au_pc' = [au_pc EXCEPT ![r] = "done"]
                /\ UNCHANGED <<au_vid, au_saw, au_invoked, loop_owner>>
           ELSE /\ au_vid' = [au_vid EXCEPT ![r] = x.id]
                /\ au_saw' = [au_saw EXCEPT ![r] = files[CachePath(x.id)]]
                /\ IF CacheHit(files[CachePath(x.id)])
                   THEN /\ au_resp' = [au_resp EXCEPT
                                          ![r] = AuReturn(CachePath(x.id), x.id, TRUE)]
                        /\ au_pc' = [au_pc EXCEPT ![r] = "done"]
                        /\ UNCHANGED <<au_invoked, loop_owner>>
                   ELSE /\ au_invoked' = [au_invoked EXCEPT ![r] = TRUE]
                        /\ au_pc' = [au_pc EXCEPT ![r] = "running"]
                        /\ loop_owner' = r
                        /\ UNCHANGED au_resp
    /\ UNCHANGED <<au_url, files>>

\* the download tool (yt-dlp -x --audio-format mp3) starts to write the file
\* at output_path
AuToolWrites(r) ==
    /\ au_pc[r] = "running"
    /\ files[output_path(r)] = "none"
    /\ files' = [files EXCEPT ![output_path(r)] = "partial"]
    /\ UNCHANGED <<au_pc, au_url, au_vid, au_saw, au_invoked, au_resp, loop_owner>>

\* the download tool writes the last byte of the file
AuToolCompletes(r) ==
    /\ au_pc[r] = "running"
    /\ files[output_path(r)] = "partial"
    /\ files' = [files EXCEPT ![output_path(r)] = "complete"]
    /\ UNCHANGED <<au_pc, au_url, au_vid, au_saw, au_invoked, au_resp, loop_owner>>

\* subprocess.run returns: the tool exited (with status 0 only once it has
\* finished the file it started), and the handler runs to its end
AuToolExits(r, exit) ==
    /\ au_pc[r] = "running"
    /\ exit \in {"zero", "nonzero"}
    /\ exit = "zero" => files[output_path(r)] # "partial"
    /\ au_resp' = [au_resp EXCEPT ![r] =
          IF exit # "zero" THEN HTTPException(500, "yt-dlp error")
          ELSE IF os_path_exists(files[output_path(r)])
               THEN AuReturn(output_path(r), au_vid[r], FALSE)
               ELSE HTTPException(500, "Audio file not created")]
    /\ au_pc' = [au_pc EXCEPT ![r] = "done"]
    /\ loop_owner' = 0
    /\ UNCHANGED <<au_url, au_vid, au_saw, au_invoked, files>>

\* subprocess.run raises TimeoutExpired after 300 s: the tool is killed where
\* it stands and the handler raises 504; what the tool wrote stays
AuTimeout(r) ==
    /\ au_pc[r] = "running"
    /\ au_resp' = [au_resp EXCEPT ![r] = HTTPException(504, "Timeout downloading audio")]
    /\ au_pc' = [au_pc EXCEPT ![r] = "done"]
    /\ loop_owner' = 0
    /\ UNCHANGED <<au_url, au_vid, au_saw, au_invoked, files>>

-----------------------------------------------------------------------------
(* whisper-server *)

wh_vars == <<whisper_model, wh_assigned, wh_pc, wh_req, wh_temp, wh_inst, wh_exc,
            wh_resp, tmpfs>>

\* number of transcription requests of a run
MaxWhReq == 2
WhReqs == 1..MaxWhReq

\* names tempfile can hand out: one per request is enough, a name is free
\* again once its file is unlinked
TempNames == 1..MaxWhReq

\* os.getenv("WHISPER_MODEL", "base")
WHISPER_MODEL_SIZE == "base"

\* values of the model parameter ("" is the falsy one)
ModelSizes == {"", "base", "small"}

\* faulty variant: the global is built and assigned on every call
get_whisper_model_AlwaysLoads(g, model_size, loadOk) ==
    LET size == IF model_size # "" THEN model_size ELSE WHISPER_MODEL_SIZE
    IN  IF loadOk
        THEN [raised |-> FALSE, global |-> Some(size), instance |-> Some(size),
              assigned |-> TRUE]
        ELSE [raised |-> TRUE, global |-> g, instance |-> None, assigned |-> FALSE]

\* get_whisper_model(model_size) with the global at g; loadOk tells whether a
\* WhisperModel(...) construction succeeds. Gives the new global, the
\* instance returned, and whether the global was assigned.
get_whisper_model(g, model_size, loadOk) ==
    LET size == IF model_size # "" THEN model_size ELSE WHISPER_MODEL_SIZE
    IN  IF g # None /\ model_size # "" /\ model_size # WHISPER_MODEL_SIZE
        THEN IF loadOk
             THEN [raised |-> FALSE, global |-> g, instance |-> Some(size),
                   assigned |-> FALSE]
             ELSE [raised |-> TRUE, global |-> g, instance |-> None,
                   assigned |-> FALSE]
        ELSE IF g = None
        THEN IF loadOk
             THEN [raised |-> FALSE, global |-> Some(size), instance |-> Some(size),
                   assigned |-> TRUE]
             ELSE [raised |-> TRUE, global |-> g, instance |-> None,
                   assigned |-> FALSE]
        ELSE [raised |-> FALSE, global |-> g, instance |-> g, assigned |-> FALSE]

WhPending ==
    [state |-> "pending", success |-> FALSE, transcript |-> None,
     model_used |-> "", error |-> None]

\* TranscribeResponse(success=True, transcript=..., model_used=model)
WhSuccess(transcript, model) ==
    [state |-> "returned", success |-> TRUE, transcript |-> Some(transcript),
     model_used |-> model, error |-> None]

\* TranscribeResponse(success=False, error=..., model_used=model)
WhFailure(error, model) ==
    [state |-> "returned", success |-> FALSE, transcript |-> None,
     model_used |-> model, error |-> Some(error)]

\* where a request can fail
UploadFails == {"none", "read", "write", "load", "transcribe", "drain"}
UrlFails == {"none", "http", "create", "write", "load", "transcribe", "drain"}
PathFails == {"none", "load", "transcribe", "drain"}

\* the stage whose exception may be one raised without a message: building the
\* model runs out of memory and the interpreter raises MemoryError()
BareFails == {"load"}

\* whether the exception of a stage carries a message
Bareness(fail) == IF fail \in BareFails THEN BOOLEAN ELSE {FALSE}

\* The exception raised at a stage. Its text is what the raiser gave it; an
\* exception raised without arguments (MemoryError(), a bare assert) has none.
Exc(stage, bare) == [stage |-> stage, args |-> IF bare THEN <<>> ELSE <<stage>>]

\* str(e)
str(e) == IF e.args = <<>> THEN "" ELSE e.args[1]

\* except Exception as e: return TranscribeResponse(success=False, error=str(e), ...)
Caught(e, model) == WhFailure(str(e), model)

\* "# Transcribe" to the return of the try block: get the model, run the
\* recognition, drain the segments. Gives the new global, whether it was
\* assigned, the local whisper, the exception caught, and the response.
Recognize(g, model, fail, bare) ==
    LET m == get_whisper_model(g, model, fail # "load")
        stage == IF m.raised THEN "load"
                 ELSE IF fail \in {"transcribe", "drain"} THEN fail
                 ELSE "none"
    IN  [global |-> m.global,
         assigned |-> m.assigned,
         inst |-> m.instance,
         exc |-> IF stage = "none" THEN None ELSE Some(Exc(stage, bare)),
         resp |-> IF stage = "none" THEN WhSuccess("text", model)
                  ELSE Caught(Exc(stage, bare), model)]

\* the name NamedTemporaryFile(delete=False, dir="/app/temp") creates: one
\* that names no existing file (names are interchangeable: the first free one)
NewTempName(fs) == Min({n \in TempNames : fs[n] = 0})

\* faulty variant: the temp file is left behind
Unlink_Never(fs, temp_file) == fs

\* finally: if temp_file and os.path.exists(temp_file.name): os.unlink(...)
Unlink(fs, temp_file) ==
    IF temp_file # None /\ fs[temp_file[1]] # 0
    THEN [fs EXCEPT ![temp_file[1]] = 0]
    ELSE fs

WhInit ==
    /\ whisper_model = None
    /\ wh_assigned = 0
    /\ wh_pc = [r \in WhReqs |-> "new"]
    /\ wh_req = [r \in WhReqs |-> [endpoint |-> "", model |-> "", early |-> FALSE]]
    /\ wh_temp = [r \in WhReqs |-> None]
    /\ wh_inst = [r \in WhReqs |-> None]
    /\ wh_exc = [r \in WhReqs |-> None]
    /\ wh_resp = [r \in WhReqs |-> WhPending]
    /\ tmpfs = [n \in TempNames |-> 0]

WhArrives(r, endpoint, model) ==
    /\ wh_pc[r] = "new"
    /\ IF r = 1 THEN TRUE ELSE wh_pc[r - 1] # "new"
    /\ wh_req' = [wh_req EXCEPT ![r] = [endpoint |-> endpoint, model |-> model,
                                        early |-> whisper_model = None]]

\* ends the request: the response, the finally clause
WhEnds(r, resp, temp_file, fs) ==
    /\ wh_resp' = [wh_resp EXCEPT ![r] = resp]
    /\ wh_temp' = [wh_temp EXCEPT ![r] = temp_file]
    /\ tmpfs' = Unlink(fs, temp_file)
    /\ wh_pc' = [wh_pc EXCEPT ![r] = "done"]

\* transcribe_audio up to `await file.read()`: the temp file is created (or
\* NamedTemporaryFile raises and the request ends)
WhUpload(r, model, created) ==
    /\ WhArrives(r, "upload", model)
    /\ IF created
       THEN LET n == NewTempName(tmpfs)
            IN /\ tmpfs' = [tmpfs EXCEPT ![n] = r]
               /\ wh_temp' = [wh_temp EXCEPT ![r] = Some(n)]
               /\ wh_pc' = [wh_pc EXCEPT ![r] = "reading"]
               /\ UNCHANGED wh_resp
               /\ UNCHANGED wh_exc
       ELSE /\ WhEnds(r, Caught(Exc("create", FALSE), model), None, tmpfs)
            /\ wh_exc' = [wh_exc EXCEPT ![r] = Some(Exc("create", FALSE))]
    /\ UNCHANGED <<whisper_model, wh_assigned, wh_inst>>

\* transcribe_audio from the await to its end
WhUploadResumes(r, fail, bare) ==
    /\ wh_pc[r] = "reading"
    /\ bare => fail \in BareFails
    /\ IF fail \in {"read", "write"}
       THEN /\ WhEnds(r, Caught(Exc(fail, bare), wh_req[r].model), wh_temp[r], tmpfs)
            /\ wh_exc' = [wh_exc EXCEPT ![r] = Some(Exc(fail, bare))]
            /\ UNCHANGED <<whisper_model, wh_assigned, wh_inst>>
       ELSE LET x == Recognize(whisper_model, wh_req[r].model, fail, bare)
            IN  /\ whisper_model' = x.global
                /\ wh_assigned' = wh_assigned + (IF x.assigned THEN 1 ELSE 0)
                /\ wh_inst' = [wh_inst EXCEPT ![r] = x.inst]
                /\ wh_exc' = [wh_exc EXCEPT ![r] = x.exc]
                /\ WhEnds(r, x.resp, wh_temp[r], tmpfs)
    /\ UNCHANGED wh_req

\* transcribe_from_url up to `await client.get(...)`
WhUrl(r, model) ==
    /\ WhArrives(r, "url", model)
    /\ wh_pc' = [wh_pc EXCEPT ![r] = "fetching"]
    /\ UNCHANGED <<whisper_model, wh_assigned, wh_temp, wh_inst, wh_exc, wh_resp, tmpfs>>

\* transcribe_from_url from the await to its end
WhUrlResumes(r, fail, bare) ==
    /\ wh_pc[r] = "fetching"
    /\ bare => fail \in BareFails
    /\ IF fail = "http"
       THEN /\ WhEnds(r, WhFailure("Failed to download audio: " \o str(Exc(fail, bare)),
                                   wh_req[r].model), None, tmpfs)
            /\ wh_exc' = [wh_exc EXCEPT ![r] = Some(Exc(fail, bare))]
            /\ UNCHANGED <<whisper_model, wh_assigned, wh_inst>>
       ELSE IF fail = "create"
       THEN /\ WhEnds(r, Caught(Exc(fail, bare), wh_req[r].model), None, tmpfs)
            /\ wh_exc' = [wh_exc EXCEPT ![r] = Some(Exc(fail, bare))]
            /\ UNCHANGED <<whisper_model, wh_assigned, wh_inst>>
       ELSE LET n == NewTempName(tmpfs)
                fs == [tmpfs EXCEPT ![n] = r]
            IN     IF fail = "write"
                      THEN /\ WhEnds(r, Caught(Exc(fail, bare), wh_req[r].model), Some(n), fs)
                           /\ wh_exc' = [wh_exc EXCEPT ![r] = Some(Exc(fail, bare))]
                           /\ UNCHANGED <<whisper_model, wh_assigned, wh_inst>>
                      ELSE LET x == Recognize(whisper_model, wh_req[r].model, fail, bare)
                           IN  /\ whisper_model' = x.global
                               /\ wh_assigned' = wh_assigned + (IF x.assigned THEN 1 ELSE 0)
                               /\ wh_inst' = [wh_inst EXCEPT ![r] = x.inst]
                               /\ wh_exc' = [wh_exc EXCEPT ![r] = x.exc]
                               /\ WhEnds(r, x.resp, Some(n), fs)
    /\ UNCHANGED wh_req

\* transcribe_from_path: no await, no temp file
WhPath(r, model, exists, fail, bare) ==
    /\ WhArrives(r, "path", model)
    /\ bare => (exists /\ fail \in BareFails)
    /\ IF ~exists
       THEN /\ WhEnds(r, WhFailure("File not found", model), None, tmpfs)
            /\ UNCHANGED <<whisper_model, wh_assigned, wh_inst, wh_exc>>
       ELSE LET x == Recognize(whisper_model, model, fail, bare)
            IN  /\ whisper_model' = x.global
                /\ wh_assigned' = wh_assigned + (IF x.assigned THEN 1 ELSE 0)
                /\ wh_inst' = [wh_inst EXCEPT ![r] = x.inst]
                /\ wh_exc' = [wh_exc EXCEPT ![r] = x.exc]
                /\ WhEnds(r, x.resp, None, tmpfs)

-----------------------------------------------------------------------------
(* extract_video_id, called on its own *)

rs_vars == <<rs_url, rs_out>>

TokC == <<"v","_","v","-","0","y","o","u","t","u","b">>
Tokens == {TokA, TokB, TokC}

VPrefix ==
    <<"h","t","t","p","s",":","/","/","w","w","w",".","y","o","u","t","u","b",
      "e",".","c","o","m","/","v","/">>

\* what stands in front of the token in each accepted form; nothing for the
\* bare token
FormPrefixes == {WatchPrefix, ShortPrefix, VPrefix, EmbedPrefix, <<>>}

\* what can follow the token: nothing, a further parameter, a newline, one
\* more character, or a second reference in another form
Trailers ==
    { <<>>, <<"&","t","=","4","2","s">>, <<"\n">>, <<"x">> }
    \cup { <<"?","v","=">> \o t : t \in Tokens }
    \cup { <<"/","e","m","b","e","d","/">> \o t : t \in Tokens }
    \cup { <<"&","u","=","y","o","u","t","u",".","b","e","/">> \o t : t \in Tokens }

\* the arguments extract_video_id is called with
ResolveInputs ==
    { p \o t \o s : p \in FormPrefixes, t \in Tokens, s \in Trailers }
    \cup { <<>>, <<"d","Q","w","4","w","9","W","g","X","c">>,
           <<"e","m","b","e","d","/">> \o <<"d","Q","w","4","w","9","W","g","X","c">> }

RsPending == [state |-> "pending", ok |-> FALSE, id |-> <<>>, error |-> <<>>]

\* no call of this kind is under way
RsIdle ==
    /\ rs_url = <<>>
    /\ rs_out = [RsPending EXCEPT !.state = "idle"]

\* extract_video_id(url) is entered with url
RsInit ==
    /\ rs_url \in ResolveInputs
    /\ rs_out = RsPending

\* for pattern in patterns: match = re.search(pattern, url); if match: return match.group(1)
RsReturn ==
    /\ rs_out.state = "pending"
    /\ extract_video_id(rs_url).ok
    /\ rs_out' = [state |-> "returned", ok |-> TRUE,
                  id |-> extract_video_id(rs_url).id, error |-> <<>>]
    /\ UNCHANGED rs_url

\* raise ValueError(f"Could not extract video ID from: {url}")
RsRaise ==
    /\ rs_out.state = "pending"
    /\ ~extract_video_id(rs_url).ok
    /\ rs_out' = [state |-> "raised", ok |-> FALSE, id |-> <<>>,
                  error |-> extract_video_id(rs_url).error]
    /\ UNCHANGED rs_url

-----------------------------------------------------------------------------
(* whisper-server: the transcript of the segments *)

jn_vars == <<segments, transcript_parts, jn_transcript, jn_pc>>

\* most segments a recognition gives
MaxSegs == 3

\* what str.strip() removes
Whitespace == {" ", "\t", "\n", "\r", "\f"}

\* segment.text as the recognition gives it: with a leading space, with a
\* space inside, with other whitespace around, only whitespace, empty, with
\* a trailing space
SegTexts ==
    { <<" ","a">>, <<"a"," ","b">>, <<"\t","b","\n">>, <<" "," ">>, <<>>,
      <<"b"," ">> }

SegLists == UNION {[1..n -> SegTexts] : n \in 0..MaxSegs}

RECURSIVE lstrip(_)
lstrip(s) ==
    IF s = <<>> THEN <<>>
    ELSE IF Head(s) \in Whitespace THEN lstrip(Tail(s)) ELSE s

RECURSIVE rstrip(_)
rstrip(s) ==
    IF s = <<>> THEN <<>>
    ELSE IF s[Len(s)] \in Whitespace THEN rstrip(SubSeq(s, 1, Len(s) - 1)) ELSE s

\* faulty variant: only the leading whitespace is removed
strip_LeftOnly(s) == lstrip(s)

\* str.strip()
strip(s) == rstrip(lstrip(s))

\* sep.join(parts)
RECURSIVE join(_, _)
join(sep, parts) ==
    IF parts = <<>> THEN <<>>
    ELSE IF Len(parts) = 1 THEN parts[1]
    ELSE parts[1] \o sep \o join(sep, Tail(parts))

\* no transcript is being collected
JnIdle ==
    /\ segments = <<>>
    /\ transcript_parts = <<>>
    /\ jn_transcript = None
    /\ jn_pc = "idle"

\* whisper.transcribe(...) has returned segments; transcript_parts = []
JnInit ==
    /\ segments \in SegLists
    /\ transcript_parts = <<>>
    /\ jn_transcript = None
    /\ jn_pc = "loop"

\* for segment in segments: transcript_parts.append(segment.text.strip())
JnAppend ==
    /\ jn_pc = "loop"
    /\ Len(transcript_parts) < Len(segments)
    /\ transcript_parts' =
          Append(transcript_parts, strip(segments[Len(transcript_parts) + 1]))
    /\ UNCHANGED <<segments, jn_transcript, jn_pc>>

\* transcript = " ".join(transcript_parts)
JnJoin ==
    /\ jn_pc = "loop"
    /\ Len(transcript_parts) = Len(segments)
    /\ jn_transcript' = Some(join(<<" ">>, transcript_parts))
    /\ jn_pc' = "joined"
    /\ UNCHANGED <<segments, transcript_parts>>

-----------------------------------------------------------------------------
(* Specifications: one per endpoint group and one per function checked on
   its own; the others stand still *)

vars == <<yt_vars, au_vars, wh_vars, rs_vars, jn_vars>>

Init == YtInit /\ AuInit /\ WhInit /\ RsIdle /\ JnIdle

NextTranscript ==
    \/ \E url \in Urls, language \in Languages, prefer_manual \in BOOLEAN :
          YtReceive(url, language, prefer_manual)
          /\ UNCHANGED <<au_vars, wh_vars, rs_vars, jn_vars>>
    \/ YtResolve /\ UNCHANGED <<au_vars, wh_vars, rs_vars, jn_vars>>
    \/ \E o \in InfoOutcomes : YtInfo(o) /\ UNCHANGED <<au_vars, wh_vars, rs_vars, jn_vars>>
    \/ YtTempDir /\ UNCHANGED <<au_vars, wh_vars, rs_vars, jn_vars>>
    \/ \E o \in FetchOutcomes : YtManual(o) /\ UNCHANGED <<au_vars, wh_vars, rs_vars, jn_vars>>
    \/ \E o \in FetchOutcomes : YtAuto(o) /\ UNCHANGED <<au_vars, wh_vars, rs_vars, jn_vars>>

SpecTranscript == Init /\ [][NextTranscript]_vars

NextAudio ==
    \/ \E r \in AudioReqs, url \in AudioUrls :
          AuArrive(r, url) /\ UNCHANGED <<yt_vars, wh_vars, rs_vars, jn_vars>>
    \/ \E r \in AudioReqs : AuBegin(r) /\ UNCHANGED <<yt_vars, wh_vars, rs_vars, jn_vars>>
    \/ \E r \in AudioReqs : AuToolWrites(r) /\ UNCHANGED <<yt_vars, wh_vars, rs_vars, jn_vars>>
    \/ \E r \in AudioReqs : AuToolCompletes(r) /\ UNCHANGED <<yt_vars, wh_vars, rs_vars, jn_vars>>
    \/ \E r \in AudioReqs, exit \in {"zero", "nonzero"} :
          AuToolExits(r, exit) /\ UNCHANGED <<yt_vars, wh_vars, rs_vars, jn_vars>>
    \/ \E r \in AudioReqs : AuTimeout(r) /\ UNCHANGED <<yt_vars, wh_vars, rs_vars, jn_vars>>

SpecAudio == Init /\ [][NextAudio]_vars

NextWhisper ==
    \/ \E r \in WhReqs, model \in ModelSizes, created \in BOOLEAN :
          WhUpload(r, model, created) /\ UNCHANGED <<yt_vars, au_vars, rs_vars, jn_vars>>
    \/ \E r \in WhReqs, fail \in UploadFails : \E bare \in Bareness(fail) :
          WhUploadResumes(r, fail, bare) /\ UNCHANGED <<yt_vars, au_vars, rs_vars, jn_vars>>
    \/ \E r \in WhReqs, model \in ModelSizes :
          WhUrl(r, model) /\ UNCHANGED <<yt_vars, au_vars, rs_vars, jn_vars>>
    \/ \E r \in WhReqs, fail \in UrlFails : \E bare \in Bareness(fail) :
          WhUrlResumes(r, fail, bare) /\ UNCHANGED <<yt_vars, au_vars, rs_vars, jn_vars>>
    \/ \E r \in WhReqs, model \in ModelSizes, exists \in BOOLEAN, fail \in PathFails :
          \E bare \in Bareness(fail) :
          WhPath(r, model, exists, fail, bare) /\ UNCHANGED <<yt_vars, au_vars, rs_vars, jn_vars>>

SpecWhisper == Init /\ [][NextWhisper]_vars

InitResolve == YtInit /\ AuInit /\ WhInit /\ RsInit /\ JnIdle

NextResolve ==
    \/ RsReturn /\ UNCHANGED <<yt_vars, au_vars, wh_vars, jn_vars>>
    \/ RsRaise /\ UNCHANGED <<yt_vars, au_vars, wh_vars, jn_vars>>

SpecResolve == InitResolve /\ [][NextResolve]_vars

InitJoin == YtInit /\ AuInit /\ WhInit /\ RsIdle /\ JnInit

NextJoin ==
    \/ JnAppend /\ UNCHANGED <<yt_vars, au_vars, wh_vars, rs_vars>>
    \/ JnJoin /\ UNCHANGED <<yt_vars, au_vars, wh_vars, rs_vars>>

SpecJoin == InitJoin /\ [][NextJoin]_vars

-----------------------------------------------------------------------------
(* Properties of POST /youtube/transcript *)

\* the calls of kind op this request has made
Made(op) == {i \in DOMAIN yt_calls : yt_calls[i].op = op}

\* a call of kind op came back to the handler (it did not time out) and the
\* file the handler looks for was / was not written by it
Returned(op, wrote) ==
    \E i \in Made(op) : yt_calls[i].exit # "timeout" /\ yt_calls[i].wrote = wrote

Whisper == <<"w","h","i","s","p","e","r">>

\* C1: with prefer_manual, when the manual fetch comes back without a caption
\* file and the auto-generated fetch comes back with one, the request ends
\* with success=true and source="auto-generated"; and a manual fetch that
\* comes back without a file never ends the request: the handler is at the
\* auto-generated step, with no result yet, until that fetch is made.
C1_ManualAbsentAutoPresent ==
    /\ (/\ yt_pc = "done"
        /\ yt_req.prefer_manual
        /\ Returned("manual", FALSE)
        /\ Returned("auto", TRUE))
       => (/\ yt_resp.state = "returned"
           /\ yt_resp.success
           /\ yt_resp.source = Some("auto-generated")
           /\ yt_resp.transcript # None)
    /\ (Returned("manual", FALSE) /\ Made("auto") = {})
       => (yt_pc = "auto" /\ yt_resp.state = "pending")

C1_Witness ==
    /\ yt_pc = "done"
    /\ yt_req.prefer_manual
    /\ Returned("manual", FALSE)
    /\ Returned("auto", TRUE)
    /\ yt_resp.success

\* C2: for a resolvable URL, when every caption fetch the request makes comes
\* back without a caption file, the request ends with success=false, no
\* transcript, no source, and an error that names the whisper service.
C2_NoCaptionsFailure ==
    (/\ yt_pc = "done"
     /\ Returned("auto", FALSE)
     /\ yt_req.prefer_manual => Returned("manual", FALSE))
    => (/\ yt_resp.state = "returned"
        /\ ~yt_resp.success
        /\ yt_resp.transcript = None
        /\ yt_resp.source = None
        /\ yt_resp.error # None
        /\ Contains(yt_resp.error[1], Whisper))

C2_Witness ==
    /\ yt_pc = "done"
    /\ yt_req.prefer_manual
    /\ Returned("manual", FALSE)
    /\ Returned("auto", FALSE)
    /\ ~yt_resp.success

\* C3 (as claimed): with prefer_manual, a tool error of the manual fetch (a
\* non-zero exit or a timeout) does not end the request: unless the manual
\* file is there after all, the auto-generated fetch is made, and when that
\* one leaves a caption file the request ends with success=true.
C3_ManualToolErrorFallsThrough ==
    (/\ yt_pc = "done"
     /\ \E i \in Made("manual") : yt_calls[i].exit # "zero")
    => (/\ yt_resp.state = "returned"
        /\ yt_resp.success \/ Made("auto") # {}
        /\ Returned("auto", TRUE) => yt_resp.success)

\* C4 (as claimed): every request ends in a YouTubeResponse, success=true or
\* success=false with an error; no exception leaves the handler.
C4_UniformResult ==
    yt_pc = "done"
    => (/\ yt_resp.state = "returned"
        /\ yt_resp.raised = None
        /\ yt_resp.success \/ yt_resp.error # None)

\* C5: when extract_video_id fails for the request's URL, the request has
\* ended with success=false and an error, and it has made no external call:
\* no metadata fetch, no temp directory, no manual or auto fetch.
C5_InvalidReferenceStopsAtOnce ==
    (yt_pc \notin {"idle", "resolve"} /\ ~Resolved[yt_req.url].ok)
    => (/\ yt_pc = "done"
        /\ yt_resp.state = "returned"
        /\ ~yt_resp.success
        /\ yt_resp.error # None
        /\ yt_calls = <<>>
        /\ ~temp_dir)

C5_Witness ==
    /\ yt_pc = "done"
    /\ ~Resolved[yt_req.url].ok
    /\ yt_resp.state = "returned"
    /\ Len(yt_req.url) > 0

-----------------------------------------------------------------------------
(* Properties of POST /youtube/audio *)

\* C6 (as claimed): no audio request returns success with an audio_path
\* (cached or not) whose file is not completely written; a partially written
\* cache file is never reported as a complete asset.
C6_NoPartialFileReported ==
    \A r \in AudioReqs :
        (au_resp[r].state = "returned" /\ au_resp[r].success)
        => files[au_resp[r].audio_path[1]] = "complete"

\* C7: a call that finds the cache file of its identifier returns success
\* with the cache path of that identifier and cached=true, and does not
\* start the download tool.
C7_CacheHitSkipsDownload ==
    \A r \in AudioReqs :
        (au_pc[r] \in {"running", "done"} /\ os_path_exists(au_saw[r])
                                          /\ au_saw[r] # "unchecked")
        => (/\ au_pc[r] = "done"
            /\ au_resp[r].state = "returned"
            /\ au_resp[r].success
            /\ au_resp[r].cached
            /\ au_resp[r].audio_path = Some(CachePath(Resolved[au_url[r]].id))
            /\ au_resp[r].video_id = Resolved[au_url[r]].id
            /\ ~au_invoked[r])

C7_Witness ==
    \E r, q \in AudioReqs :
        /\ r # q
        /\ au_url[r] # au_url[q]
        /\ au_resp[q].state = "returned" /\ ~au_resp[q].cached
        /\ au_pc[r] = "done" /\ au_saw[r] = "complete"
        /\ au_resp[r].cached
        /\ au_resp[r].audio_path = au_resp[q].audio_path

-----------------------------------------------------------------------------
(* Properties of the whisper-server *)

\* C8 (as claimed): the shared global model instance, once loaded, is an
\* instance of the default size WHISPER_MODEL_SIZE, whatever sizes the
\* requests asked for.
C8_GlobalIsDefaultSize ==
    whisper_model # None => whisper_model = Some(WHISPER_MODEL_SIZE)

\* C9: under every interleaving of the requests, the global model instance
\* is constructed and assigned at most once.
C9_GlobalAssignedAtMostOnce ==
    /\ wh_assigned <= 1
    /\ wh_assigned = 0 <=> whisper_model = None

C9_Witness ==
    /\ wh_assigned = 1
    /\ \E r, q \in WhReqs :
          /\ r # q
          /\ wh_req[r].early /\ wh_req[q].early
          /\ wh_req[r].model = WHISPER_MODEL_SIZE /\ wh_req[q].model = ""
          /\ wh_resp[r].success /\ wh_resp[q].success
          /\ wh_inst[r] = whisper_model /\ wh_inst[q] = whisper_model

\* C10: once an upload or URL request has completed, no temp file it
\* created is left in /app/temp, whichever way it ended.
C10_TempFileRemoved ==
    \A r \in WhReqs :
        wh_pc[r] = "done" => \A n \in TempNames : tmpfs[n] # r

C10_Witness ==
    \E r, q \in WhReqs :
        /\ wh_pc[r] = "done" /\ wh_pc[q] = "done"
        /\ wh_req[r].endpoint = "upload" /\ wh_req[q].endpoint = "url"
        /\ wh_temp[r] # None /\ wh_temp[q] # None
        /\ wh_resp[r].error = Some("write")
        /\ wh_resp[q].error = Some("transcribe")

\* C11: in every transcription entry point, a request whose model loading,
\* recognition call or segment draining raised an exception ends with a
\* returned result that has success = false and a non-empty error.
C11_FailureHasNonEmptyError ==
    \A r \in WhReqs :
        (/\ wh_pc[r] = "done"
         /\ wh_exc[r] # None
         /\ wh_exc[r][1].stage \in {"load", "transcribe", "drain"})
        => /\ wh_resp[r].state = "returned"
           /\ ~wh_resp[r].success
           /\ wh_resp[r].error # None
           /\ wh_resp[r].error[1] # ""

-----------------------------------------------------------------------------
(* Further properties of POST /youtube/transcript *)

\* the caption fetches the request has made
CaptionCalls == Made("manual") \cup Made("auto")

\* C12 (as claimed): when every caption fetch the request made ended in a
\* tool error (a non-zero exit or a timeout) and left no file, the request
\* ends with a returned failure whose error is not the "No subtitles
\* available" error of fetches that ran cleanly and produced nothing.
C12_ToolErrorDistinguished ==
    (/\ yt_pc = "done"
     /\ CaptionCalls # {}
     /\ \A i \in CaptionCalls : yt_calls[i].exit # "zero" /\ ~yt_calls[i].wrote)
    => (/\ yt_resp.state = "returned"
        /\ ~yt_resp.success
        /\ yt_resp.error # None
        /\ yt_resp.error # Some(NoSubtitles))

\* the metadata fetch of the request failed: non-zero exit, timeout, or a
\* stdout that does not parse
InfoFailed ==
    \E i \in Made("info") :
        yt_calls[i].exit # "zero" \/ yt_calls[i].stdout = "garbage"

\* what the caption fetches alone determine: how the request ends, success,
\* source and transcript
CaptionResult ==
    IF \E i \in CaptionCalls : yt_calls[i].exit = "timeout"
    THEN <<"raised", FALSE, None, None>>
    ELSE IF \E i \in Made("manual") : yt_calls[i].wrote
    THEN <<"returned", TRUE, Some("manual"), Some(clean_vtt_content("manual"))>>
    ELSE IF \E i \in Made("auto") : yt_calls[i].wrote
    THEN <<"returned", TRUE, Some("auto-generated"), Some(clean_vtt_content("auto"))>>
    ELSE <<"returned", FALSE, None, None>>

\* C13: a failed metadata fetch does not end the request: title and duration
\* are absent, the handler goes on to the caption fetches, and how the
\* request ends, its success, source and transcript are determined by the
\* caption fetches alone, whether the metadata fetch failed or not.
C13_MetadataFailureNonFatal ==
    /\ InfoFailed
       => (/\ title = None /\ duration = None
           /\ yt_resp.title = None /\ yt_resp.duration = None
           /\ yt_pc \in {"tempdir", "manual", "auto", "done"}
           /\ yt_pc = "done" => CaptionCalls # {})
    /\ (yt_pc = "done" /\ Made("info") # {})
       => <<yt_resp.state, yt_resp.success, yt_resp.source, yt_resp.transcript>>
          = CaptionResult

C13_Witness ==
    /\ yt_pc = "done"
    /\ \E i \in Made("info") : yt_calls[i].exit = "timeout"
    /\ yt_resp.success
    /\ yt_resp.source = Some("manual")
    /\ yt_resp.title = None

\* C17: with prefer_manual=false the manual fetch is never made, no result
\* has source="manual", and the first caption step is the auto-generated
\* fetch: once the temp directory exists the handler is at that fetch.
C17_NoManualWhenNotPreferred ==
    (~yt_req.prefer_manual)
    => (/\ Made("manual") = {}
        /\ yt_pc # "manual"
        /\ yt_resp.source # Some("manual")
        /\ (Made("mkdtemp") # {} /\ Made("auto") = {}) => yt_pc = "auto")

C17_Witness ==
    /\ yt_pc = "done"
    /\ ~yt_req.prefer_manual
    /\ Made("auto") # {}
    /\ yt_resp.source = Some("auto-generated")

\* C18: within one request each caption fetch is made at most once; the
\* auto-generated fetch is made only after the manual step was skipped or a
\* manual fetch left no file, never once a manual fetch has left a file; and
\* a result with source="manual" comes only from a manual fetch of this
\* request that left the file that was normalized.
C18_CaptionStepsOrdered ==
    /\ Cardinality(Made("manual")) <= 1
    /\ Cardinality(Made("auto")) <= 1
    /\ \A j \in Made("auto") :
          \/ ~yt_req.prefer_manual /\ Made("manual") = {}
          \/ \E i \in Made("manual") : i < j /\ ~yt_calls[i].wrote
    /\ (\E i \in Made("manual") : yt_calls[i].wrote) => Made("auto") = {}
    /\ yt_resp.source = Some("manual")
       => /\ \E i \in Made("manual") : yt_calls[i].wrote
          /\ yt_resp.transcript = Some(clean_vtt_content("manual"))

C18_Witness ==
    /\ yt_pc = "done"
    /\ \E i \in Made("manual") : yt_calls[i].wrote
    /\ yt_resp.source = Some("manual")
    /\ Made("auto") = {}

-----------------------------------------------------------------------------
(* Further properties of POST /youtube/audio and of the whisper-server *)

\* C19 (as claimed): starting from an empty cache, a call returns cached=true
\* only if another call for the same identifier returned success with
\* cached=false (it ran first: once the file is there no call downloads it
\* again); a call that ended in an error never makes a later call report a
\* cache hit.
C19_CacheHitOnlyAfterFreshSuccess ==
    \A r \in AudioReqs :
        (au_resp[r].state = "returned" /\ au_resp[r].cached)
        => \E q \in AudioReqs \ {r} :
              /\ au_vid[q] = au_vid[r]
              /\ au_resp[q].state = "returned"
              /\ au_resp[q].success
              /\ ~au_resp[q].cached

\* the size model_used names: the default size when it is empty
NamedSize(model_used) == IF model_used = "" THEN WHISPER_MODEL_SIZE ELSE model_used

\* C20 (as claimed): in every successful result, model_used names the size
\* of the model instance that served the request.
C20_ModelUsedNamesInstance ==
    \A r \in WhReqs :
        (wh_pc[r] = "done" /\ wh_resp[r].success)
        => wh_inst[r] = Some(NamedSize(wh_resp[r].model_used))

-----------------------------------------------------------------------------
(* Properties of the transcript of the segments *)

\* p is s without its leading and trailing whitespace
IsTrimmed(p, s) ==
    \E a \in 1..(Len(s) + 1), b \in 0..Len(s) :
        /\ a <= b + 1
        /\ p = SubSeq(s, a, b)
        /\ \A k \in 1..(a - 1) : s[k] \in Whitespace
        /\ \A k \in (b + 1)..Len(s) : s[k] \in Whitespace
        /\ p # <<>> => (p[1] \notin Whitespace /\ p[Len(p)] \notin Whitespace)

\* how many characters of the transcript stand before the i-th part
RECURSIVE Before(_, _)
Before(parts, i) ==
    IF i = 1 THEN 0 ELSE Before(parts, i - 1) + Len(parts[i - 1]) + 1

\* C14: the transcript is the segment texts in order, each without its
\* leading and trailing whitespace, with exactly one space between
\* consecutive segments and nothing else.
C14_TranscriptIsStrippedJoin ==
    jn_pc = "joined"
    => LET t == jn_transcript[1]
           n == Len(segments)
           parts == transcript_parts
       IN  /\ Len(parts) = n
           /\ \A i \in 1..n : IsTrimmed(parts[i], segments[i])
           /\ Len(t) = IF n = 0 THEN 0 ELSE Before(parts, n) + Len(parts[n])
           /\ \A i \in 1..n :
                 SubSeq(t, Before(parts, i) + 1, Before(parts, i) + Len(parts[i]))
                 = parts[i]
           /\ \A i \in 2..n : t[Before(parts, i)] = " "

C14_Witness ==
    /\ jn_pc = "joined"
    /\ Len(segments) = MaxSegs
    /\ segments[1] = <<" ","a">>
    /\ segments[2] = <<"\t","b","\n">>
    /\ \A i \in 3..MaxSegs : segments[i] = <<"a"," ","b">>
    /\ SubSeq(jn_transcript[1], 1, 7) = <<"a"," ","b"," ","a"," ","b">>

-----------------------------------------------------------------------------
(* Properties of extract_video_id *)

\* the accepted surface forms of a reference to t that begin with p: p and
\* the token, and for a URL form also with a further parameter behind it
SurfaceForms(p, t) ==
    {p \o t} \cup (IF p = <<>> THEN {} ELSE {p \o t \o <<"&","t","=","4","2","s">>})

\* C15: for every token t and every accepted surface form of a reference to
\* t (watch?v=t, youtu.be/t, /v/t, embed/t, bare t), extract_video_id
\* returns exactly t.
C15_EveryFormGivesToken ==
    \A t \in Tokens, p \in FormPrefixes :
        (rs_out.state # "pending" /\ rs_url \in SurfaceForms(p, t))
        => (rs_out.state = "returned" /\ rs_out.id = t)

C15_Witness ==
    /\ rs_url = ShortPrefix \o TokC \o <<"&","t","=","4","2","s">>
    /\ rs_out.state = "returned"
    /\ rs_out.id = TokC

\* one of the literals lits, followed by a token, stands in s at position i
FormAt(s, i, lits) ==
    \E l \in lits : HasAt(s, i, l) /\ TokenAt(s, i + Len(l))

HasForm(s, lits) == \E i \in 1..Len(s) : FormAt(s, i, lits)

\* the token of the leftmost place of s where one of lits, followed by a
\* token, stands
TokenOf(s, lits) ==
    LET i == CHOOSE x \in 1..Len(s) :
                 FormAt(s, x, lits) /\ \A y \in 1..(x - 1) : ~FormAt(s, y, lits)
        l == CHOOSE x \in lits : HasAt(s, i, x) /\ TokenAt(s, i + Len(x))
    IN  SubSeq(s, i + Len(l), i + Len(l) + TokLen - 1)

QueryLit == <<"v","=">>
PathLits == {<<"/","v","/">>, <<"y","o","u","t","u",".","b","e","/">>}
EmbedLit == <<"e","m","b","e","d","/">>

\* the whole of s is a token
IsToken(s) == Len(s) = TokLen /\ TokenAt(s, 1)

\* C16 (as claimed): the forms are tried in the order query-parameter form,
\* path-segment form, embed form, bare-token form, and the token of the
\* first form that matches is returned; the bare-token form matches only
\* when the whole input is the token.
C16_FourFormsInOrder ==
    rs_out.state # "pending"
    => IF HasForm(rs_url, {QueryLit})
       THEN rs_out.state = "returned" /\ rs_out.id = TokenOf(rs_url, {QueryLit})
       ELSE IF HasForm(rs_url, PathLits)
       THEN rs_out.state = "returned" /\ rs_out.id = TokenOf(rs_url, PathLits)
       ELSE IF HasForm(rs_url, {EmbedLit})
       THEN rs_out.state = "returned" /\ rs_out.id = TokenOf(rs_url, {EmbedLit})
       ELSE IF IsToken(rs_url)
       THEN rs_out.state = "returned" /\ rs_out.id = rs_url
       ELSE rs_out.state = "raised"

\* C16 (amended): there are three patterns, tried in this order. The first
\* takes the token at the leftmost place where v=, /v/ or youtu.be/ is
\* followed by a token: the query-parameter and the path-segment forms have
\* the same priority and the one that stands first in the input wins. The
\* second takes the token of the leftmost embed/. The third, tried last,
\* matches when the input is a token, or a token followed by one newline.
C16_ThreePatternsInOrder ==
    rs_out.state # "pending"
    => IF HasForm(rs_url, {QueryLit} \cup PathLits)
       THEN /\ rs_out.state = "returned"
            /\ rs_out.id = TokenOf(rs_url, {QueryLit} \cup PathLits)
       ELSE IF HasForm(rs_url, {EmbedLit})
       THEN rs_out.state = "returned" /\ rs_out.id = TokenOf(rs_url, {EmbedLit})
       ELSE IF IsToken(rs_url)
       THEN rs_out.state = "returned" /\ rs_out.id = rs_url
       ELSE IF Len(rs_url) = TokLen + 1 /\ TokenAt(rs_url, 1) /\ rs_url[Len(rs_url)] = "\n"
       THEN rs_out.state = "returned" /\ rs_out.id = SubSeq(rs_url, 1, TokLen)
       ELSE rs_out.state = "raised"

C16_Witness ==
    /\ rs_url = ShortPrefix \o TokA \o <<"?","v","=">> \o TokB
    /\ rs_out.state = "returned"
    /\ rs_out.id = TokA

=============================================================================
